---- MODULE Spec2Model ----
(***************************************************************************)
(* Model of crates/catalog-unity/src/client/mod.rs: the ClientOptions      *)
(* builder (fifteen fields, fifteen with_* setters) and ClientOptions::    *)
(* client(), which drives a reqwest ClientBuilder, finalizes the transport *)
(* and wraps it with RetryTransientMiddleware.                             *)
(*                                                                         *)
(* Option<T> is modelled as a set: None is {} and Some(v) is {v}.          *)
(* The reqwest ClientBuilder is modelled by the sequence of configuration  *)
(* calls made on it, in call order.                                        *)
(***************************************************************************)
EXTENDS Integers, Sequences, FiniteSets, TLC

\* ---------------------------------------------------------------- bounds
\* number of with_* calls in one behaviour
MaxCalls == 3
\* RetryConfig values passed to with_retry_config have max_retries in 0..MaxRetries
MaxRetries == 2

\* ------------------------------------------------------------ input sets
None == {}
Some(v) == {v}

\* mod.rs:25  concat!(env!("CARGO_PKG_NAME"), "/", env!("CARGO_PKG_VERSION"))
\* the two values come from the crate manifest at compile time
CARGO_PKG_NAME == "CARGO_PKG_NAME"
CARGO_PKG_VERSION == "CARGO_PKG_VERSION"
DEFAULT_USER_AGENT == <<CARGO_PKG_NAME, "/", CARGO_PKG_VERSION>>

UserAgents == {<<"agent-a">>, <<"agent-b">>}
HeaderMaps == {"headers-a"}
\* the Duration arguments of with_timeout
Durations == {1, 2}
\* the Duration arguments of the other timeout and keep-alive setters
Intervals == {3}
PoolSizes == {4}
ValidProxyUrls == {"http://proxy:8080"}
InvalidProxyUrls == {"http://bad proxy"}
ProxyUrls == ValidProxyUrls \cup InvalidProxyUrls
RetryConfigs == [max_retries : 0..MaxRetries]

VARIABLES
    opts,      \* the ClientOptions value held by the caller
    hist,      \* the with_* calls made so far, in order: [s |-> setter, a |-> argument]
    res,       \* what the last call of client() returned and did
    req        \* one request issued through the returned client

vars == <<opts, hist, res, req>>

\* ------------------------------------------------------------ ClientOptions
\* mod.rs:28-45, #[derive(Default)]: every Option is None, every bool false
ClientOptions_new ==
    [ user_agent                  |-> None,
      default_headers             |-> None,
      proxy_url                   |-> None,
      allow_http                  |-> FALSE,
      allow_insecure              |-> FALSE,
      timeout                     |-> None,
      connect_timeout             |-> None,
      pool_idle_timeout           |-> None,
      pool_max_idle_per_host      |-> None,
      http2_keep_alive_interval   |-> None,
      http2_keep_alive_timeout    |-> None,
      http2_keep_alive_while_idle |-> FALSE,
      http1_only                  |-> FALSE,
      http2_only                  |-> FALSE,
      retry_config                |-> None ]

with_user_agent(self, agent) == [self EXCEPT !.user_agent = Some(agent)]

with_default_headers(self, headers) == [self EXCEPT !.default_headers = Some(headers)]

with_allow_http(self, allow_http) == [self EXCEPT !.allow_http = allow_http]

with_allow_invalid_certificates(self, allow_insecure) ==
    [self EXCEPT !.allow_insecure = allow_insecure]

with_http1_only(self) == [self EXCEPT !.http1_only = TRUE]

\* fault: choosing HTTP/2 withdraws an earlier choice of HTTP/1
with_http2_only_exclusive(self) == [self EXCEPT !.http2_only = TRUE, !.http1_only = FALSE]

with_http2_only(self) == [self EXCEPT !.http2_only = TRUE]

with_proxy_url(self, proxy_url) == [self EXCEPT !.proxy_url = Some(proxy_url)]

\* fault: a value already set is kept, the new one is dropped
with_timeout_keep_first(self, timeout) ==
    IF self.timeout = None THEN [self EXCEPT !.timeout = Some(timeout)] ELSE self

with_timeout(self, timeout) == [self EXCEPT !.timeout = Some(timeout)]

\* fault: the value is stored in the neighbouring field
with_connect_timeout_wrong_field(self, timeout) == [self EXCEPT !.timeout = Some(timeout)]

with_connect_timeout(self, timeout) == [self EXCEPT !.connect_timeout = Some(timeout)]

with_pool_idle_timeout(self, timeout) == [self EXCEPT !.pool_idle_timeout = Some(timeout)]

with_pool_max_idle_per_host(self, max) ==
    [self EXCEPT !.pool_max_idle_per_host = Some(max)]

with_http2_keep_alive_interval(self, interval) ==
    [self EXCEPT !.http2_keep_alive_interval = Some(interval)]

with_http2_keep_alive_timeout(self, interval) ==
    [self EXCEPT !.http2_keep_alive_timeout = Some(interval)]

with_http2_keep_alive_while_idle(self) ==
    [self EXCEPT !.http2_keep_alive_while_idle = TRUE]

with_retry_config(self, cfg) == [self EXCEPT !.retry_config = Some(cfg)]

\* ------------------------------------------------------------------ errors
\* An error value: its type, its tag (the catalog of a Generic error, the
\* kind of a reqwest error, the variant of a UnityCatalogError) and its source.
ReqwestError(kind) == [type |-> "reqwest::Error", tag |-> kind, source |-> None]

\* mod.rs:18-23
map_client_error(e) ==
    [type |-> "DataCatalogError::Generic", tag |-> "HTTP client", source |-> Some(e)]

\* mod.rs:236  .map_err(UnityCatalogError::from): the reqwest error becomes the
\* source of a UnityCatalogError
UnityCatalogError_from(e) ==
    [type |-> "UnityCatalogError", tag |-> "RequestError", source |-> Some(e)]

\* variant: the conversion tags the error with the catalog's own name
DataCatalogError_from_unity(e) ==
    [type |-> "DataCatalogError::Generic", tag |-> "Unity", source |-> Some(e)]

\* mod.rs:236  the ? operator converts the UnityCatalogError into the
\* DataCatalogError of DataCatalogResult
DataCatalogError_from(e) ==
    [type |-> "DataCatalogError::Generic", tag |-> "HTTP client", source |-> Some(e)]

\* ------------------------------------------------------- reqwest collaborators
\* Proxy::all(url): Ok(proxy) or Err(reqwest::Error)
Proxy_all(url) ==
    IF url \in ValidProxyUrls
    THEN [ok |-> TRUE, proxy |-> <<"all", url>>, err |-> None]
    ELSE [ok |-> FALSE, proxy |-> <<>>, err |-> Some(ReqwestError("builder: invalid proxy url"))]

\* one configuration call on the ClientBuilder
Call(b, m, a) == Append(b, [m |-> m, a |-> a])

\* ExponentialBackoff::builder().build_with_max_retries(n)
build_with_max_retries(n) == [kind |-> "ExponentialBackoff", max_n_retries |-> n]

\* impl From<&RetryConfig> for ExponentialBackoff (client/retry.rs)
RetryConfig_into(retry) == build_with_max_retries(retry.max_retries)

\* ------------------------------------------------------ ClientOptions::client
TheOne(o) == CHOOSE v \in o : TRUE

\* mod.rs:179-182
ApplyUserAgent(self, b) ==
    IF self.user_agent # None
    THEN Call(b, "user_agent", TheOne(self.user_agent))
    ELSE Call(b, "user_agent", DEFAULT_USER_AGENT)

\* mod.rs:184-186
ApplyDefaultHeaders(self, b) ==
    IF self.default_headers # None
    THEN Call(b, "default_headers", TheOne(self.default_headers))
    ELSE b

\* mod.rs:193-207
ApplyTimeouts(self, b) ==
    LET b1 == IF self.timeout # None
              THEN Call(b, "timeout", TheOne(self.timeout)) ELSE b
        b2 == IF self.connect_timeout # None
              THEN Call(b1, "connect_timeout", TheOne(self.connect_timeout)) ELSE b1
        b3 == IF self.pool_idle_timeout # None
              THEN Call(b2, "pool_idle_timeout", TheOne(self.pool_idle_timeout)) ELSE b2
        b4 == IF self.pool_max_idle_per_host # None
              THEN Call(b3, "pool_max_idle_per_host", TheOne(self.pool_max_idle_per_host))
              ELSE b3
    IN  b4

\* mod.rs:209-219
ApplyKeepAlive(self, b) ==
    LET b1 == IF self.http2_keep_alive_interval # None
              THEN Call(b, "http2_keep_alive_interval", TheOne(self.http2_keep_alive_interval))
              ELSE b
        b2 == IF self.http2_keep_alive_timeout # None
              THEN Call(b1, "http2_keep_alive_timeout", TheOne(self.http2_keep_alive_timeout))
              ELSE b1
        b3 == IF self.http2_keep_alive_while_idle
              THEN Call(b2, "http2_keep_alive_while_idle", TRUE) ELSE b2
    IN  b3

\* fault: the two protocol restrictions are applied in the other order
ApplyProtocol_http2_first(self, b) ==
    LET b1 == IF self.http2_only THEN Call(b, "http2_prior_knowledge", TRUE) ELSE b
        b2 == IF self.http1_only THEN Call(b1, "http1_only", TRUE) ELSE b1
    IN  b2

\* mod.rs:221-227
ApplyProtocol(self, b) ==
    LET b1 == IF self.http1_only THEN Call(b, "http1_only", TRUE) ELSE b
        b2 == IF self.http2_only THEN Call(b1, "http2_prior_knowledge", TRUE) ELSE b1
    IN  b2

\* fault: the certificate setting is passed on whether or not it is set
ApplyInsecure_always(self, b) == Call(b, "danger_accept_invalid_certs", self.allow_insecure)

\* mod.rs:229-231
ApplyInsecure(self, b) ==
    IF self.allow_insecure
    THEN Call(b, "danger_accept_invalid_certs", self.allow_insecure)
    ELSE b

\* fault: the negation is missing
ApplyHttpsOnly_not_negated(self, b) == Call(b, "https_only", self.allow_http)

\* mod.rs:233-234
ApplyHttpsOnly(self, b) == Call(b, "https_only", ~self.allow_http)

\* fault: the configured retry policy is ignored
ResolveRetryPolicy_ignores_config(self) == build_with_max_retries(3)

\* mod.rs:237-241
ResolveRetryPolicy(self) ==
    IF self.retry_config # None
    THEN RetryConfig_into(TheOne(self.retry_config))
    ELSE build_with_max_retries(3)

\* fault: a proxy URL that does not parse is dropped and client() goes on
ResolveProxy_lenient(self) ==
    IF self.proxy_url = None
    THEN [ok |-> TRUE, parsed |-> FALSE, proxy |-> <<>>, errors |-> {}]
    ELSE LET r == Proxy_all(TheOne(self.proxy_url))
         IN  [ok |-> TRUE, parsed |-> r.ok, proxy |-> r.proxy, errors |-> {}]

\* mod.rs:188-191.  parsed: Proxy::all returned a proxy, which is then applied;
\* ok: client() goes on (the ? operator did not return)
ResolveProxy(self) ==
    IF self.proxy_url = None
    THEN [ok |-> TRUE, parsed |-> FALSE, proxy |-> <<>>, errors |-> {}]
    ELSE LET r == Proxy_all(TheOne(self.proxy_url))
         IN  IF r.ok
             THEN [ok |-> TRUE, parsed |-> TRUE, proxy |-> r.proxy, errors |-> {}]
             ELSE [ok |-> FALSE, parsed |-> FALSE, proxy |-> <<>>,
                   errors |-> {map_client_error(TheOne(r.err))}]

\* fault: a failed transport build is swallowed and client() goes on
FinalizeTransport_swallows(transportBuilds) ==
    [ok |-> TRUE, built |-> transportBuilds, errors |-> {}]

\* mod.rs:235-236  .build().map_err(UnityCatalogError::from)?
\* transportBuilds is the result of ClientBuilder::build(), which the transport
\* library decides.  built: a transport client exists; ok: client() goes on
FinalizeTransport(transportBuilds) ==
    IF transportBuilds
    THEN [ok |-> TRUE, built |-> TRUE, errors |-> {}]
    ELSE [ok |-> FALSE, built |-> FALSE,
          errors |-> {DataCatalogError_from(UnityCatalogError_from(ReqwestError("builder")))}]

\* the value returned by client() together with what the call did:
\*   state    "ok": Ok(client) was returned, "err": Err(error) was returned
\*   calls    the configuration calls made on the ClientBuilder, in order
\*   built    ClientBuilder::build() returned a transport client
\*   policy   the retry policy resolved (None when that step was not reached)
\*   wrapped  the transport client was wrapped with RetryTransientMiddleware
\*   errors   the errors returned to the caller
\*   from     the ClientOptions the call was made on
Outcome(state, calls, built, policy, wrapped, errors, self) ==
    [state |-> state, calls |-> calls, built |-> built, policy |-> policy,
     wrapped |-> wrapped, errors |-> errors, from |-> self]

\* mod.rs:176-247
client(self, transportBuilds) ==
    LET b0 == <<>>
        b1 == ApplyUserAgent(self, b0)
        b2 == ApplyDefaultHeaders(self, b1)
        px == ResolveProxy(self)
    IN  IF ~px.ok
        THEN Outcome("err", b2, FALSE, None, FALSE, px.errors, self)
        ELSE
        LET b3 == IF px.parsed THEN Call(b2, "proxy", px.proxy) ELSE b2
            b4 == ApplyTimeouts(self, b3)
            b5 == ApplyKeepAlive(self, b4)
            b6 == ApplyProtocol(self, b5)
            b7 == ApplyInsecure(self, b6)
            b8 == ApplyHttpsOnly(self, b7)
            fin == FinalizeTransport(transportBuilds)
        IN  IF ~fin.ok
            THEN Outcome("err", b8, fin.built, None, FALSE, fin.errors, self)
            ELSE Outcome("ok", b8, fin.built, Some(ResolveRetryPolicy(self)), TRUE, {}, self)

NotCalled == Outcome("none", <<>>, FALSE, None, FALSE, {}, ClientOptions_new)

\* --------------------------------------------------- RetryTransientMiddleware
Idle == [status |-> "idle", attempts |-> 0]

\* RetryPolicy::should_retry for a transient failure after n_past_retries retries
should_retry(policy, n_past_retries) == n_past_retries < policy.max_n_retries

\* ------------------------------------------------------------------ actions
\* one with_* call of the chain that configures the options; the chain ends
\* when the caller builds its client
Setter(s, a, new) ==
    /\ res.state = "none"
    /\ Len(hist) < MaxCalls
    /\ opts' = new
    /\ hist' = Append(hist, [s |-> s, a |-> a])
    /\ UNCHANGED <<res, req>>

WithUserAgent == \E v \in UserAgents : Setter("with_user_agent", v, with_user_agent(opts, v))
WithDefaultHeaders ==
    \E v \in HeaderMaps : Setter("with_default_headers", v, with_default_headers(opts, v))
WithAllowHttp == \E v \in BOOLEAN : Setter("with_allow_http", v, with_allow_http(opts, v))
WithAllowInvalidCertificates ==
    \E v \in BOOLEAN : Setter("with_allow_invalid_certificates", v,
                              with_allow_invalid_certificates(opts, v))
WithHttp1Only == Setter("with_http1_only", TRUE, with_http1_only(opts))
WithHttp2Only == Setter("with_http2_only", TRUE, with_http2_only(opts))
WithProxyUrl == \E v \in ProxyUrls : Setter("with_proxy_url", v, with_proxy_url(opts, v))
WithTimeout == \E v \in Durations : Setter("with_timeout", v, with_timeout(opts, v))
WithConnectTimeout ==
    \E v \in Intervals : Setter("with_connect_timeout", v, with_connect_timeout(opts, v))
WithPoolIdleTimeout ==
    \E v \in Intervals : Setter("with_pool_idle_timeout", v, with_pool_idle_timeout(opts, v))
WithPoolMaxIdlePerHost ==
    \E v \in PoolSizes : Setter("with_pool_max_idle_per_host", v,
                                with_pool_max_idle_per_host(opts, v))
WithHttp2KeepAliveInterval ==
    \E v \in Intervals : Setter("with_http2_keep_alive_interval", v,
                                with_http2_keep_alive_interval(opts, v))
WithHttp2KeepAliveTimeout ==
    \E v \in Intervals : Setter("with_http2_keep_alive_timeout", v,
                                with_http2_keep_alive_timeout(opts, v))
WithHttp2KeepAliveWhileIdle ==
    Setter("with_http2_keep_alive_while_idle", TRUE, with_http2_keep_alive_while_idle(opts))
WithRetryConfig ==
    \E v \in RetryConfigs : Setter("with_retry_config", v, with_retry_config(opts, v))

\* the caller builds its client, once
Client ==
    /\ res.state = "none"
    /\ \E transportBuilds \in BOOLEAN : res' = client(opts, transportBuilds)
    /\ req' = Idle
    /\ UNCHANGED <<opts, hist>>

\* the caller issues a request through the client: the first attempt
SendRequest ==
    /\ res.state = "ok"
    /\ req.status = "idle"
    /\ req' = [status |-> "inflight", attempts |-> 1]
    /\ UNCHANGED <<opts, hist, res>>

\* the attempt in flight fails with a transient failure
AttemptFailsTransient ==
    /\ req.status = "inflight"
    /\ req' = IF should_retry(TheOne(res.policy), req.attempts - 1)
              THEN [status |-> "inflight", attempts |-> req.attempts + 1]
              ELSE [status |-> "failed", attempts |-> req.attempts]
    /\ UNCHANGED <<opts, hist, res>>

\* the attempt in flight succeeds
AttemptSucceeds ==
    /\ req.status = "inflight"
    /\ req' = [req EXCEPT !.status = "done"]
    /\ UNCHANGED <<opts, hist, res>>

Init ==
    /\ opts = ClientOptions_new
    /\ hist = <<>>
    /\ res = NotCalled
    /\ req = Idle

Next ==
    \/ WithUserAgent
    \/ WithDefaultHeaders
    \/ WithAllowHttp
    \/ WithAllowInvalidCertificates
    \/ WithHttp1Only
    \/ WithHttp2Only
    \/ WithProxyUrl
    \/ WithTimeout
    \/ WithConnectTimeout
    \/ WithPoolIdleTimeout
    \/ WithPoolMaxIdlePerHost
    \/ WithHttp2KeepAliveInterval
    \/ WithHttp2KeepAliveTimeout
    \/ WithHttp2KeepAliveWhileIdle
    \/ WithRetryConfig
    \/ Client
    \/ SendRequest
    \/ AttemptFailsTransient
    \/ AttemptSucceeds

Spec == Init /\ [][Next]_vars

\* ============================================================ properties
\* the with_* setters, the field each one names, and the value the field
\* takes from a call
OptionSetters ==
    {"with_user_agent", "with_default_headers", "with_proxy_url", "with_timeout",
     "with_connect_timeout", "with_pool_idle_timeout", "with_pool_max_idle_per_host",
     "with_http2_keep_alive_interval", "with_http2_keep_alive_timeout",
     "with_retry_config"}
BoolSetters == {"with_allow_http", "with_allow_invalid_certificates"}
FlagSetters == {"with_http1_only", "with_http2_only", "with_http2_keep_alive_while_idle"}
Setters == OptionSetters \cup BoolSetters \cup FlagSetters

FieldTable ==
    [ with_user_agent                  |-> "user_agent",
      with_default_headers             |-> "default_headers",
      with_proxy_url                   |-> "proxy_url",
      with_allow_http                  |-> "allow_http",
      with_allow_invalid_certificates  |-> "allow_insecure",
      with_timeout                     |-> "timeout",
      with_connect_timeout             |-> "connect_timeout",
      with_pool_idle_timeout           |-> "pool_idle_timeout",
      with_pool_max_idle_per_host      |-> "pool_max_idle_per_host",
      with_http2_keep_alive_interval   |-> "http2_keep_alive_interval",
      with_http2_keep_alive_timeout    |-> "http2_keep_alive_timeout",
      with_http2_keep_alive_while_idle |-> "http2_keep_alive_while_idle",
      with_http1_only                  |-> "http1_only",
      with_http2_only                  |-> "http2_only",
      with_retry_config                |-> "retry_config" ]
FieldOf(s) == FieldTable[s]

Fields == {FieldOf(s) : s \in Setters}

ValueOf(c) == IF c.s \in OptionSetters THEN {c.a} ELSE IF c.s \in BoolSetters THEN c.a ELSE TRUE
DefaultOf(s) == IF s \in OptionSetters THEN {} ELSE FALSE

CallsOf(s) == {i \in 1..Len(hist) : hist[i].s = s}
LastOf(S) == CHOOSE i \in S : \A j \in S : j <= i

\* client() has been called; it ran on the options the setter chain produced
Called == res.state # "none"
\* the builder calls of method m made by the last client()
Applied(m) == {i \in 1..Len(res.calls) : res.calls[i].m = m}
AppliedWith(m, a) == \E i \in Applied(m) : res.calls[i].a = a
\* client() got past proxy resolution: no proxy URL, or one that parses
ProxyFails == Called /\ res.from.proxy_url # {} /\ res.from.proxy_url \subseteq InvalidProxyUrls
TheError == CHOOSE e \in res.errors : TRUE
\* the innermost error of a chain of sources
RECURSIVE RootCause(_)
RootCause(e) == IF e.source = None THEN e ELSE RootCause(CHOOSE s \in e.source : TRUE)

\* ------------------------------------------------------------------ C1
\* C1: after any sequence of with_* calls on ClientOptions::new(), every
\* field holds the value of the last call of its setter, and its default when
\* its setter was never called.
C1_LastSetterWins ==
    \A s \in Setters :
        opts[FieldOf(s)] = IF CallsOf(s) = {} THEN DefaultOf(s)
                           ELSE ValueOf(hist[LastOf(CallsOf(s))])

\* with_timeout(A) then with_timeout(B), A # B
C1_Witness ==
    \E i, j \in CallsOf("with_timeout") :
        /\ i < j
        /\ hist[i].a # hist[j].a
        /\ j = LastOf(CallsOf("with_timeout"))
        /\ opts.timeout = {hist[j].a}

C3_InvalidProxyFails ==
    (Called /\ res.from.proxy_url # {} /\ res.from.proxy_url \subseteq InvalidProxyUrls) =>
        /\ res.state = "err"
        /\ Cardinality(res.errors) = 1
        /\ TheError.type = "DataCatalogError::Generic"
        /\ TheError.tag = "HTTP client"
        /\ TheError.source = {ReqwestError("builder: invalid proxy url")}
        /\ ~res.built /\ ~res.wrapped
        /\ req.status = "idle"

\* an invalid proxy URL together with other options set
C3_Witness ==
    /\ ProxyFails
    /\ res.state = "err"
    /\ Len(hist) >= 2
    /\ \E f \in Fields \ {"proxy_url"} : res.from[f] # ClientOptions_new[f]

\* ------------------------------------------------------------------ C4
\* C4: with retry_config of max retries N, a request whose every attempt
\* fails transiently is issued at most N+1 times, and is surfaced as failed
\* only after exactly N+1 attempts.
C4_RetryCount ==
    (res.state = "ok" /\ res.from.retry_config # {}) =>
        LET N == (CHOOSE c \in res.from.retry_config : TRUE).max_retries
        IN  /\ req.attempts <= N + 1
            /\ req.status = "failed" => req.attempts = N + 1

\* a request given up after 1 initial attempt and 2 retries, by a client built
\* with max retries 2
C4_Witness ==
    /\ res.state = "ok"
    /\ res.from.retry_config = {[max_retries |-> 2]}
    /\ req.status = "failed"
    /\ req.attempts = 3

\* ------------------------------------------------------------------ C5
\* C5: with http1_only and http2_only both set, client() fails only at one of
\* its two failure points, and when it gets past the proxy step the protocol
\* restrictions reach the builder as http1_only first, http2_prior_knowledge
\* second, whichever setter was called first.
C5_ProtocolOrder ==
    (Called /\ res.from.http1_only /\ res.from.http2_only) =>
        /\ ~ProxyFails =>
              \E i, j \in 1..Len(res.calls) :
                  /\ Applied("http1_only") = {i}
                  /\ Applied("http2_prior_knowledge") = {j}
                  /\ j = i + 1
        /\ res.state = "err" =>
              \/ ProxyFails
              \/ RootCause(TheError) = ReqwestError("builder")

\* with_http2_only was called before with_http1_only, and a client was built
C5_Witness ==
    /\ res.state = "ok"
    /\ res.from.http1_only /\ res.from.http2_only
    /\ \E i \in CallsOf("with_http2_only") : \E j \in CallsOf("with_http1_only") : i < j

\* ------------------------------------------------------------------ C6
\* C6: client() ends either with a client, whose transport is built and
\* wrapped with the retry middleware under a resolved policy, or with exactly
\* one error, in which case no transport client exists, no retry policy was
\* resolved and nothing was wrapped; after a proxy failure the builder was
\* never finalized (https_only was not reached).
C6_AllOrNothing ==
    Called =>
        /\ res.state \in {"ok", "err"}
        /\ res.state = "ok" =>
              /\ res.built /\ res.wrapped
              /\ res.policy # {}
              /\ res.errors = {}
              /\ Applied("https_only") # {}
        /\ res.state = "err" =>
              /\ Cardinality(res.errors) = 1
              /\ ~res.built /\ ~res.wrapped
              /\ res.policy = {}
              /\ req.status = "idle"
        /\ ProxyFails => res.state = "err" /\ Applied("https_only") = {}
        /\ res.built <=> res.state = "ok"

\* the transport build fails on options that carry a retry configuration
C6_Witness ==
    /\ res.state = "err"
    /\ ~ProxyFails
    /\ res.from.retry_config # {}
    /\ Applied("https_only") # {}

C8_OneFieldPerSetter ==
    [][ Len(hist') = Len(hist) + 1 =>
          LET c == hist'[Len(hist')]
          IN  /\ opts'[FieldOf(c.s)] = ValueOf(c)
              /\ \A f \in Fields \ {FieldOf(c.s)} : opts'[f] = opts[f]
              /\ Cardinality(Fields \ {FieldOf(c.s)}) = 14
              /\ res' = res /\ res'.calls = <<>>
              /\ req' = req ]_vars

\* three setter calls changed three fields and no builder call was made
C8_Witness ==
    /\ Len(hist) = 3
    /\ Cardinality({f \in Fields : opts[f] # ClientOptions_new[f]}) = 3
    /\ res.state = "none" /\ res.calls = <<>>

\* ------------------------------------------------------------------ C9
\* the builder methods in the order client() reaches them
RankTable ==
    [ user_agent                  |-> 1,
      default_headers             |-> 2,
      proxy                       |-> 3,
      timeout                     |-> 4,
      connect_timeout             |-> 5,
      pool_idle_timeout           |-> 6,
      pool_max_idle_per_host      |-> 7,
      http2_keep_alive_interval   |-> 8,
      http2_keep_alive_timeout    |-> 9,
      http2_keep_alive_while_idle |-> 10,
      http1_only                  |-> 11,
      http2_prior_knowledge       |-> 12,
      danger_accept_invalid_certs |-> 13,
      https_only                  |-> 14 ]
Rank(m) == RankTable[m]

\* the Option fields of the knobs, each applied by the builder method of the same name
OptionKnobs ==
    {"timeout", "connect_timeout", "pool_idle_timeout", "pool_max_idle_per_host",
     "http2_keep_alive_interval", "http2_keep_alive_timeout"}

KnobsAsSet ==
    /\ \A k \in OptionKnobs :
          /\ Applied(k) # {} <=> res.from[k] # {}
          /\ \A i \in Applied(k) : res.from[k] = {res.calls[i].a}
    /\ Applied("http2_keep_alive_while_idle") # {} <=> res.from.http2_keep_alive_while_idle
    /\ Applied("danger_accept_invalid_certs") # {} <=> res.from.allow_insecure
    /\ \A i \in Applied("danger_accept_invalid_certs") : res.calls[i].a = TRUE
    /\ AppliedWith("https_only", ~res.from.allow_http)
    /\ \A i \in 1..(Len(res.calls) - 1) : Rank(res.calls[i].m) < Rank(res.calls[i + 1].m)

\* C9 as stated: in every call of client(), each optional knob is applied iff
\* it is set, https_only is always applied with NOT allow_http, and the calls
\* reach the builder in the fixed order.
C9_KnobsInEveryCall == Called => KnobsAsSet

\* C9 amended: the same, in every call of client() that does not fail at
\* proxy parsing (a proxy URL that does not parse ends client() before any
\* later knob, https_only included, is applied).
C9_KnobsPastProxy == (Called /\ ~ProxyFails) => KnobsAsSet

\* the certificate bypass was set before the timeout and reaches the builder after it
C9_Witness ==
    /\ Called /\ ~ProxyFails
    /\ \E i \in CallsOf("with_allow_invalid_certificates") : \E j \in CallsOf("with_timeout") :
          i < j
    /\ \E i \in Applied("timeout") : \E j \in Applied("danger_accept_invalid_certs") : i < j

\* ------------------------------------------------------------------ C10
\* C10: once with_http1_only, with_http2_only or
\* with_http2_keep_alive_while_idle has been called, its flag is true after
\* every later sequence of setter calls (allow_http and allow_insecure, in
\* contrast, follow the last call of their setter and can return to false).
C10_FlagsMonotone ==
    /\ CallsOf("with_http1_only") # {} => opts.http1_only
    /\ CallsOf("with_http2_only") # {} => opts.http2_only
    /\ CallsOf("with_http2_keep_alive_while_idle") # {} => opts.http2_keep_alive_while_idle

\* with_http1_only, then allow_http set to true and back to false: the flag
\* stays, allow_http does not
C10_Witness ==
    /\ \E i \in CallsOf("with_http1_only") : \E j, k \in CallsOf("with_allow_http") :
          i < j /\ j < k /\ hist[j].a = TRUE /\ hist[k].a = FALSE
    /\ opts.http1_only
    /\ ~opts.allow_http

====
